---- MODULE Spec2Model ----
(***************************************************************************)
(* Model of AwsBedrockRuntimeHandler (src/api/providers/bedrock-runtime.ts) *)
(* The stream decoder of createMessage is an async generator; every await   *)
(* of the transport (send, next chunk) and every yield of the catch block   *)
(* is one step of the state machine.                                        *)
(***************************************************************************)
EXTENDS Integers, Sequences, FiniteSets, TLC

\* Longest stream of arbitrary chunks the transport delivers in one consumption.
MaxFrames == 3
\* Longest stream of chunks that all follow the wire format.
MaxWireFrames == 5
\* Chunks delivered in all to two calls that run concurrently.
MaxPairFrames == 2
\* Longest content of a message, in blocks.
MaxBlocks == 4

VARIABLES
    pc,            \* position of the generator in createMessage
    body,          \* state of response.body
    hasStarted, inputTokens, outputTokens,   \* the decoder's locals
    events,        \* the events yielded to the caller, in order
    origin,        \* origin[i]: number of the chunk events[i] was derived from
    received,      \* the chunks the loop has taken from response.body
    caught,        \* the error bound in the catch block
    thrown,        \* the error that left createMessage
    parked,        \* a second createMessage call of the handler, not running now
    options,       \* the ApiHandlerOptions given to the handler
    selected,      \* the result of shouldUseRuntime(options)
    command,       \* the InvokeModelWithResponseStreamCommand built
    content,       \* the content blocks of a message
    formatted      \* the result of formatContent(content)

\* the state of one createMessage call
callVars == <<pc, body, hasStarted, inputTokens, outputTokens, events, origin,
              received, caught, thrown>>

\* what a step of a createMessage call leaves alone
others == <<parked, options, selected, command, content, formatted>>

vars == <<pc, body, hasStarted, inputTokens, outputTokens, events, origin,
          received, caught, thrown, parked, options, selected, command,
          content, formatted>>

-----------------------------------------------------------------------------
(* Optional JSON fields: None is an absent field, Some(v) a present one.   *)
None == <<>>
Some(v) == <<v>>
IsSome(o) == o # None
Get(o) == o[1]

\* JavaScript truthiness of an optional number / optional string.
TruthyNum(o) == IsSome(o) /\ Get(o) # 0
TruthyStr(o) == IsSome(o) /\ Get(o) # ""

\* `x || 0` on an optional number.
OrZero(o) == IF TruthyNum(o) THEN Get(o) ELSE 0

-----------------------------------------------------------------------------
(* Chunks of response.body.  bytes: chunk.chunk?.bytes is present.         *)
(* json: what JSON.parse(decode(bytes)) gives: "object", "scalar" (a       *)
(* number, string, boolean or array: any property read is undefined),      *)
(* "null" (reading .type throws a TypeError) or "invalid" (JSON.parse      *)
(* throws a SyntaxError).                                                  *)
Chunk(b, j, t, mu, dt, uo) ==
    [bytes |-> b, json |-> j, type |-> t, message_usage |-> mu,
     delta_text |-> dt, usage_output_tokens |-> uo]

Usage(i, o) == [input_tokens |-> i, output_tokens |-> o]

NoBytesChunk      == Chunk(FALSE, "object", "", None, None, None)
InvalidJsonChunk  == Chunk(TRUE, "invalid", "", None, None, None)
NullJsonChunk     == Chunk(TRUE, "null", "", None, None, None)
ScalarJsonChunk   == Chunk(TRUE, "scalar", "", None, None, None)
OtherTypeChunk    == Chunk(TRUE, "object", "ping", None, None, None)
MsgStartChunk(mu) == Chunk(TRUE, "object", "message_start", mu, None, None)
BlockDeltaChunk(dt) == Chunk(TRUE, "object", "content_block_delta", None, dt, None)
MsgDeltaChunk(uo) == Chunk(TRUE, "object", "message_delta", None, None, uo)
MsgStopChunk      == Chunk(TRUE, "object", "message_stop", None, None, None)

\* The chunks the transport may deliver.
Chunks ==
    { NoBytesChunk, InvalidJsonChunk, NullJsonChunk, ScalarJsonChunk,
      OtherTypeChunk,
      MsgStartChunk(None),
      MsgStartChunk(Some(Usage(Some(10), Some(0)))),
      MsgStartChunk(Some(Usage(None, None))),
      BlockDeltaChunk(None), BlockDeltaChunk(Some("")),
      BlockDeltaChunk(Some("Hel")), BlockDeltaChunk(Some("lo")),
      MsgDeltaChunk(None), MsgDeltaChunk(Some(0)), MsgDeltaChunk(Some(2)),
      MsgStopChunk }

\* The chunks of a backend that follows the wire format.
WireChunks ==
    { MsgStartChunk(Some(Usage(Some(10), Some(0)))),
      BlockDeltaChunk(Some("Hel")), BlockDeltaChunk(Some("lo")),
      MsgDeltaChunk(Some(2)), MsgStopChunk }

\* The chunks delivered when two calls run: one for every branch of the loop.
PairChunks ==
    { NoBytesChunk, InvalidJsonChunk, OtherTypeChunk,
      MsgStartChunk(Some(Usage(Some(10), Some(0)))),
      BlockDeltaChunk(Some("Hel")), MsgDeltaChunk(Some(2)), MsgStopChunk }

\* The streams the model explores: for one call, any stream of MaxFrames
\* chunks and any well-formed one of MaxWireFrames chunks; for two calls,
\* MaxPairFrames chunks in all.
InBounds(s) ==
    IF parked.pc = "none"
      THEN \/ Len(s) <= MaxFrames
           \/ Len(s) <= MaxWireFrames
                 /\ \A i \in 1..Len(s) : s[i] \in WireChunks
      ELSE /\ Len(s) + Len(parked.received) <= MaxPairFrames
           /\ \A i \in 1..Len(s) : s[i] \in PairChunks

-----------------------------------------------------------------------------
(* Errors and the text of `Error: ${error.message}`.                       *)
TransportErrors == {"TransportFailure"}

ErrorText(e) ==
    CASE e = "NoResponseStream"   -> "Error: No response stream available"
      [] e = "NoContentGenerated" -> "Error: No content was generated by the model"
      [] e = "SendFailure"        -> "Error: request failed"
      [] e = "TransportFailure"   -> "Error: stream interrupted"
      [] e = "SyntaxError"        -> "Error: Unexpected token in JSON"
      [] e = "TypeError"          -> "Error: Cannot read properties of null"
      [] OTHER                    -> "Error: undefined"

\* Output events
TextEvent(t) == [type |-> "text", text |-> t, inputTokens |-> 0, outputTokens |-> 0]
UsageEvent(i, o) == [type |-> "usage", text |-> "", inputTokens |-> i, outputTokens |-> o]

\* yield ev, derived from chunk number src (0: not derived from a chunk)
Yield(ev, src) ==
    /\ events' = Append(events, ev)
    /\ origin' = Append(origin, src)

\* throw inside the try block: control goes to the catch block
Throw(e) ==
    /\ caught' = e
    /\ pc' = "catch_text"

-----------------------------------------------------------------------------
\* values of the variables a specification does not use
NoCall == [pc |-> "none"]
NoOptions == [apiModelId |-> None, awsRegion |-> None,
              awsUseCrossRegionInference |-> None, useBedrockRuntime |-> None]

Init ==
    /\ pc = "send"
    /\ body = "unsent"
    /\ hasStarted = FALSE
    /\ inputTokens = 0
    /\ outputTokens = 0
    /\ events = <<>>
    /\ origin = <<>>
    /\ received = <<>>
    /\ caught = "none"
    /\ thrown = "none"
    /\ parked = NoCall
    /\ options = NoOptions
    /\ selected = None
    /\ command = None
    /\ content = <<>>
    /\ formatted = None

\* Send without the check of response.body
Send_IgnoresMissingBody ==
    /\ pc = "send"
    /\ \E outcome \in {"body", "nobody", "reject"} :
         CASE outcome = "body" ->
                  pc' = "loop" /\ body' = "open" /\ caught' = caught
           [] outcome = "nobody" ->
                  pc' = "loop" /\ body' = "absent" /\ caught' = caught
           [] outcome = "reject" ->
                  body' = body /\ Throw("SendFailure")
    /\ UNCHANGED <<hasStarted, inputTokens, outputTokens, events, origin,
                   received, thrown, others>>

\* const response = await this.client.send(command); if (!response.body) throw
Send ==
    /\ pc = "send"
    /\ \E outcome \in {"body", "nobody", "reject"} :
         CASE outcome = "body" ->
                  pc' = "loop" /\ body' = "open" /\ caught' = caught
           [] outcome = "nobody" ->
                  body' = "absent" /\ Throw("NoResponseStream")
           [] outcome = "reject" ->
                  body' = body /\ Throw("SendFailure")
    /\ UNCHANGED <<hasStarted, inputTokens, outputTokens, events, origin,
                   received, thrown, others>>

\* The for await loop receives chunk c from response.body.
Receive(c) ==
    /\ pc = "loop"
    /\ InBounds(Append(received, c))
    /\ received' = Append(received, c)

\* if (chunk.chunk?.bytes) is false: nothing happens
ChunkWithoutBytes ==
    /\ Receive(NoBytesChunk)
    /\ UNCHANGED <<pc, body, hasStarted, inputTokens, outputTokens, events, origin,
                   caught, thrown, others>>

\* JSON.parse throws, or data is null and data.type throws
ChunkParseFailure ==
    \E c \in Chunks :
        /\ c.bytes /\ c.json \in {"invalid", "null"}
        /\ Receive(c)
        /\ Throw(IF c.json = "invalid" THEN "SyntaxError" ELSE "TypeError")
        /\ body' = "closed"
        /\ UNCHANGED <<hasStarted, inputTokens, outputTokens, events, origin,
                       thrown, others>>

\* UnknownType with a default case that throws
UnknownType_Throws ==
    \E c \in Chunks :
        /\ c.bytes /\ c.json \in {"object", "scalar"}
        /\ c.json = "scalar" \/ c.type \notin {"message_start",
               "content_block_delta", "message_delta", "message_stop"}
        /\ Receive(c)
        /\ Throw("TypeError")
        /\ body' = "closed"
        /\ UNCHANGED <<hasStarted, inputTokens, outputTokens, events, origin,
                       thrown, others>>

\* the switch matches no case
UnknownType ==
    \E c \in Chunks :
        /\ c.bytes /\ c.json \in {"object", "scalar"}
        /\ c.json = "scalar" \/ c.type \notin {"message_start",
               "content_block_delta", "message_delta", "message_stop"}
        /\ Receive(c)
        /\ UNCHANGED <<pc, body, hasStarted, inputTokens, outputTokens,
                       events, origin, caught, thrown, others>>

\* MessageStart that assigns the counts outside the check of the usage record
MessageStart_ResetsWithoutUsage ==
    \E c \in Chunks :
        /\ c.bytes /\ c.json = "object" /\ c.type = "message_start"
        /\ Receive(c)
        /\ IF IsSome(c.message_usage)
             THEN /\ inputTokens' = OrZero(Get(c.message_usage).input_tokens)
                  /\ outputTokens' = OrZero(Get(c.message_usage).output_tokens)
                  /\ Yield(UsageEvent(inputTokens', outputTokens'),
                           Len(received'))
             ELSE /\ inputTokens' = 0
                  /\ outputTokens' = 0
                  /\ UNCHANGED <<events, origin>>
        /\ UNCHANGED <<pc, body, hasStarted, caught, thrown, others>>

\* case "message_start"
MessageStart ==
    \E c \in Chunks :
        /\ c.bytes /\ c.json = "object" /\ c.type = "message_start"
        /\ Receive(c)
        /\ IF IsSome(c.message_usage)
             THEN /\ inputTokens' = OrZero(Get(c.message_usage).input_tokens)
                  /\ outputTokens' = OrZero(Get(c.message_usage).output_tokens)
                  /\ Yield(UsageEvent(inputTokens', outputTokens'),
                           Len(received'))
             ELSE UNCHANGED <<inputTokens, outputTokens, events, origin>>
        /\ UNCHANGED <<pc, body, hasStarted, caught, thrown, others>>

\* ContentBlockDelta that never sets hasStarted
ContentBlockDelta_NeverStarts ==
    \E c \in Chunks :
        /\ c.bytes /\ c.json = "object" /\ c.type = "content_block_delta"
        /\ Receive(c)
        /\ IF TruthyStr(c.delta_text)
             THEN Yield(TextEvent(Get(c.delta_text)), Len(received'))
             ELSE UNCHANGED <<events, origin>>
        /\ UNCHANGED <<pc, body, hasStarted, inputTokens, outputTokens,
                       caught, thrown, others>>

\* ContentBlockDelta that puts the text in front of the events yielded so far
ContentBlockDelta_Prepends ==
    \E c \in Chunks :
        /\ c.bytes /\ c.json = "object" /\ c.type = "content_block_delta"
        /\ Receive(c)
        /\ IF TruthyStr(c.delta_text)
             THEN /\ hasStarted' = TRUE
                  /\ events' = <<TextEvent(Get(c.delta_text))>> \o events
                  /\ origin' = <<Len(received')>> \o origin
             ELSE UNCHANGED <<hasStarted, events, origin>>
        /\ UNCHANGED <<pc, body, inputTokens, outputTokens, caught, thrown, others>>

\* case "content_block_delta"
ContentBlockDelta ==
    \E c \in Chunks :
        /\ c.bytes /\ c.json = "object" /\ c.type = "content_block_delta"
        /\ Receive(c)
        /\ IF TruthyStr(c.delta_text)
             THEN /\ hasStarted' = TRUE
                  /\ Yield(TextEvent(Get(c.delta_text)), Len(received'))
             ELSE UNCHANGED <<hasStarted, events, origin>>
        /\ UNCHANGED <<pc, body, inputTokens, outputTokens, caught, thrown, others>>

\* MessageDelta that yields before it assigns outputTokens
MessageDelta_YieldsStale ==
    \E c \in Chunks :
        /\ c.bytes /\ c.json = "object" /\ c.type = "message_delta"
        /\ Receive(c)
        /\ IF TruthyNum(c.usage_output_tokens)
             THEN /\ outputTokens' = Get(c.usage_output_tokens)
                  /\ Yield(UsageEvent(inputTokens, outputTokens),
                           Len(received'))
             ELSE UNCHANGED <<outputTokens, events, origin>>
        /\ UNCHANGED <<pc, body, hasStarted, inputTokens, caught, thrown, others>>

\* MessageDelta that assigns outputTokens and yields nothing
MessageDelta_Silent ==
    \E c \in Chunks :
        /\ c.bytes /\ c.json = "object" /\ c.type = "message_delta"
        /\ Receive(c)
        /\ IF TruthyNum(c.usage_output_tokens)
             THEN outputTokens' = Get(c.usage_output_tokens)
             ELSE UNCHANGED outputTokens
        /\ UNCHANGED <<pc, body, hasStarted, inputTokens, events, origin,
                       caught, thrown, others>>

\* case "message_delta"
MessageDelta ==
    \E c \in Chunks :
        /\ c.bytes /\ c.json = "object" /\ c.type = "message_delta"
        /\ Receive(c)
        /\ IF TruthyNum(c.usage_output_tokens)
             THEN /\ outputTokens' = Get(c.usage_output_tokens)
                  /\ Yield(UsageEvent(inputTokens, outputTokens'),
                           Len(received'))
             ELSE UNCHANGED <<outputTokens, events, origin>>
        /\ UNCHANGED <<pc, body, hasStarted, inputTokens, caught, thrown, others>>

\* MessageStop that yields only once content has started
MessageStop_OnlyWhenStarted ==
    \E c \in Chunks :
        /\ c.bytes /\ c.json = "object" /\ c.type = "message_stop"
        /\ Receive(c)
        /\ IF hasStarted
             THEN Yield(UsageEvent(inputTokens, outputTokens), Len(received'))
             ELSE UNCHANGED <<events, origin>>
        /\ UNCHANGED <<pc, body, hasStarted, inputTokens, outputTokens,
                       caught, thrown, others>>

\* case "message_stop"
MessageStop ==
    \E c \in Chunks :
        /\ c.bytes /\ c.json = "object" /\ c.type = "message_stop"
        /\ Receive(c)
        /\ Yield(UsageEvent(inputTokens, outputTokens), Len(received'))
        /\ UNCHANGED <<pc, body, hasStarted, inputTokens, outputTokens,
                       caught, thrown, others>>

\* StreamError whose error is recorded while the loop goes on
StreamError_KeepsReading ==
    /\ pc = "loop"
    /\ \E e \in TransportErrors : caught' = e
    /\ body' = "errored"
    /\ UNCHANGED <<pc, hasStarted, inputTokens, outputTokens, events, origin,
                   received, thrown, others>>

\* response.body raises while the loop awaits the next chunk
StreamError ==
    /\ pc = "loop"
    /\ \E e \in TransportErrors : Throw(e)
    /\ body' = "errored"
    /\ UNCHANGED <<hasStarted, inputTokens, outputTokens, events, origin,
                   received, thrown, others>>

\* EndOfStream that throws without looking at hasStarted
EndOfStream_AlwaysThrows ==
    /\ pc = "loop"
    /\ body' = "ended"
    /\ Throw("NoContentGenerated")
    /\ UNCHANGED <<hasStarted, inputTokens, outputTokens, events, origin,
                   received, thrown, others>>

\* EndOfStream that yields a closing usage event when content has started
EndOfStream_YieldsUsage ==
    /\ pc = "loop"
    /\ body' = "ended"
    /\ IF hasStarted
         THEN /\ pc' = "done" /\ caught' = caught
              /\ Yield(UsageEvent(inputTokens, outputTokens), 0)
         ELSE /\ Throw("NoContentGenerated")
              /\ UNCHANGED <<events, origin>>
    /\ UNCHANGED <<hasStarted, inputTokens, outputTokens, received, thrown, others>>

\* response.body is exhausted: if (!hasStarted) throw
EndOfStream ==
    /\ pc = "loop"
    /\ body' = "ended"
    /\ IF hasStarted
         THEN pc' = "done" /\ caught' = caught
         ELSE Throw("NoContentGenerated")
    /\ UNCHANGED <<hasStarted, inputTokens, outputTokens, events, origin,
                   received, thrown, others>>

\* catch: yield { type: "text", text: `Error: ${error.message}` }
CatchYieldText ==
    /\ pc = "catch_text"
    /\ Yield(TextEvent(ErrorText(caught)), 0)
    /\ pc' = "catch_usage"
    /\ UNCHANGED <<body, hasStarted, inputTokens, outputTokens, received,
                   caught, thrown, others>>

\* CatchYieldUsage that yields the counts accumulated so far
CatchYieldUsage_CurrentCounts ==
    /\ pc = "catch_usage"
    /\ Yield(UsageEvent(inputTokens, outputTokens), 0)
    /\ pc' = "catch_throw"
    /\ UNCHANGED <<body, hasStarted, inputTokens, outputTokens, received,
                   caught, thrown, others>>

\* catch: yield { type: "usage", inputTokens: 0, outputTokens: 0 }
CatchYieldUsage ==
    /\ pc = "catch_usage"
    /\ Yield(UsageEvent(0, 0), 0)
    /\ pc' = "catch_throw"
    /\ UNCHANGED <<body, hasStarted, inputTokens, outputTokens, received,
                   caught, thrown, others>>

\* catch: throw error
Rethrow ==
    /\ pc = "catch_throw"
    /\ thrown' = caught
    /\ pc' = "failed"
    /\ UNCHANGED <<body, hasStarted, inputTokens, outputTokens, events,
                   origin, received, caught, others>>

Next ==
    \/ Send
    \/ ChunkWithoutBytes
    \/ ChunkParseFailure
    \/ UnknownType
    \/ MessageStart
    \/ ContentBlockDelta
    \/ MessageDelta
    \/ MessageStop
    \/ StreamError
    \/ EndOfStream
    \/ CatchYieldText
    \/ CatchYieldUsage
    \/ Rethrow

Spec == Init /\ [][Next]_vars

-----------------------------------------------------------------------------
(* The caller gives the generator up: it calls return() on it, as a        *)
(* `for await ... break` over the events does.                             *)

\* the generator is suspended at a yield: in the loop after the event of
\* the chunk taken last, or in the catch block after one of its two yields
Suspended ==
    /\ events # <<>>
    /\ \/ pc = "loop" /\ origin[Len(origin)] = Len(received)
       \/ pc \in {"catch_usage", "catch_throw"}

\* return() that leaves response.body as it is
Abandon_LeavesStreamOpen ==
    /\ Suspended
    /\ pc' = "returned"
    /\ UNCHANGED <<body, hasStarted, inputTokens, outputTokens, events,
                   origin, received, caught, thrown, others>>

\* return() completes the generator at the yield: no catch block runs, and
\* leaving the for await loop closes the iterator of response.body
Abandon ==
    /\ Suspended
    /\ pc' = "returned"
    /\ body' = IF body = "open" THEN "closed" ELSE body
    /\ UNCHANGED <<hasStarted, inputTokens, outputTokens, events, origin,
                   received, caught, thrown, others>>

NextAbandon ==
    \/ Next
    \/ Abandon

SpecAbandon == Init /\ [][NextAbandon]_vars

-----------------------------------------------------------------------------
(* Two createMessage calls on one handler.  The variables of callVars are  *)
(* the locals of the call that runs; parked holds those of the other call  *)
(* while it is suspended at an await or a yield.  The handler's fields     *)
(* (options, client) are not written by createMessage.                     *)

InitialCall(id) ==
    [id |-> id, pc |-> "send", body |-> "unsent", hasStarted |-> FALSE,
     inputTokens |-> 0, outputTokens |-> 0, events |-> <<>>, origin |-> <<>>,
     received |-> <<>>, caught |-> "none", thrown |-> "none"]

\* the running call, as a record
Running ==
    [id |-> 3 - parked.id, pc |-> pc, body |-> body,
     hasStarted |-> hasStarted, inputTokens |-> inputTokens,
     outputTokens |-> outputTokens, events |-> events, origin |-> origin,
     received |-> received, caught |-> caught, thrown |-> thrown]

InitPair ==
    /\ pc = "send"
    /\ body = "unsent"
    /\ hasStarted = FALSE
    /\ inputTokens = 0
    /\ outputTokens = 0
    /\ events = <<>>
    /\ origin = <<>>
    /\ received = <<>>
    /\ caught = "none"
    /\ thrown = "none"
    /\ parked = InitialCall(2)
    /\ options = NoOptions
    /\ selected = None
    /\ command = None
    /\ content = <<>>
    /\ formatted = None

\* Switch with inputTokens and outputTokens kept on the handler
Switch_SharesCounts ==
    /\ parked.pc # "none"
    /\ parked' = Running
    /\ pc' = parked.pc
    /\ body' = parked.body
    /\ hasStarted' = parked.hasStarted
    /\ events' = parked.events
    /\ origin' = parked.origin
    /\ received' = parked.received
    /\ caught' = parked.caught
    /\ thrown' = parked.thrown
    /\ UNCHANGED <<inputTokens, outputTokens, options, selected, command,
                   content, formatted>>

\* the running call is suspended and the other call is resumed
Switch ==
    /\ parked.pc # "none"
    /\ parked' = Running
    /\ pc' = parked.pc
    /\ body' = parked.body
    /\ hasStarted' = parked.hasStarted
    /\ inputTokens' = parked.inputTokens
    /\ outputTokens' = parked.outputTokens
    /\ events' = parked.events
    /\ origin' = parked.origin
    /\ received' = parked.received
    /\ caught' = parked.caught
    /\ thrown' = parked.thrown
    /\ UNCHANGED <<options, selected, command, content, formatted>>

NextPair ==
    \/ Next
    \/ Switch

SpecPair == InitPair /\ [][NextPair]_vars

-----------------------------------------------------------------------------
(* The loop body as a function of the decoder's locals and one chunk, and  *)
(* the loop over a whole stream.                                           *)

InitialDecoder ==
    [hasStarted |-> FALSE, inputTokens |-> 0, outputTokens |-> 0,
     events |-> <<>>, failure |-> "none"]

DecodeChunk(d, c) ==
    IF d.failure # "none" \/ ~c.bytes \/ c.json = "scalar" THEN d
    ELSE IF c.json = "invalid" THEN [d EXCEPT !.failure = "SyntaxError"]
    ELSE IF c.json = "null" THEN [d EXCEPT !.failure = "TypeError"]
    ELSE CASE c.type = "message_start" /\ IsSome(c.message_usage) ->
                LET i == OrZero(Get(c.message_usage).input_tokens)
                    o == OrZero(Get(c.message_usage).output_tokens)
                IN [d EXCEPT !.inputTokens = i, !.outputTokens = o,
                             !.events = Append(@, UsageEvent(i, o))]
           [] c.type = "content_block_delta" /\ TruthyStr(c.delta_text) ->
                [d EXCEPT !.hasStarted = TRUE,
                          !.events = Append(@, TextEvent(Get(c.delta_text)))]
           [] c.type = "message_delta" /\ TruthyNum(c.usage_output_tokens) ->
                LET o == Get(c.usage_output_tokens)
                IN [d EXCEPT !.outputTokens = o,
                             !.events = Append(@, UsageEvent(d.inputTokens, o))]
           [] c.type = "message_stop" ->
                [d EXCEPT !.events =
                     Append(@, UsageEvent(d.inputTokens, d.outputTokens))]
           [] OTHER -> d

RECURSIVE Decode(_)
Decode(s) ==
    IF s = <<>> THEN InitialDecoder
    ELSE DecodeChunk(Decode(SubSeq(s, 1, Len(s) - 1)), s[Len(s)])

-----------------------------------------------------------------------------
(* Request construction.  Strings that the code slices, lower-cases or     *)
(* searches are sequences of one-character strings.                        *)

LowerOf(ch) ==
    CASE ch = "A" -> "a" [] ch = "C" -> "c" [] ch = "D" -> "d"
      [] ch = "E" -> "e" [] ch = "H" -> "h" [] ch = "I" -> "i"
      [] ch = "L" -> "l" [] ch = "M" -> "m" [] ch = "N" -> "n"
      [] ch = "O" -> "o" [] ch = "P" -> "p" [] ch = "R" -> "r"
      [] ch = "S" -> "s" [] ch = "T" -> "t" [] ch = "U" -> "u"
      [] ch = "V" -> "v" [] ch = "W" -> "w" [] ch = "Z" -> "z"
      [] OTHER -> ch

\* String.prototype.toLowerCase
ToLowerCase(str) == [i \in 1..Len(str) |-> LowerOf(str[i])]

\* String.prototype.includes
Includes(str, sub) ==
    \E i \in 0..(Len(str) - Len(sub)) : SubSeq(str, i + 1, i + Len(sub)) = sub

\* String.prototype.slice(0, n)
SliceFront(str, n) == SubSeq(str, 1, IF Len(str) < n THEN Len(str) ELSE n)

NovaText == <<"n", "o", "v", "a">>
UsDash == <<"u", "s", "-">>
EuDash == <<"e", "u", "-">>
UsDot == <<"u", "s", ".">>
EuDot == <<"e", "u", ".">>

\* ids of the model catalog
NovaLiteId == <<"a", "m", "a", "z", "o", "n", ".", "n", "o", "v", "a", "-", "l", "i", "t", "e", "-", "v", "1">>
NovaProId == <<"a", "m", "a", "z", "o", "n", ".", "n", "o", "v", "a", "-", "p", "r", "o", "-", "v", "1">>
ClaudeId == <<"a", "n", "t", "h", "r", "o", "p", "i", "c", ".", "c", "l", "a", "u", "d", "e", "-", "3">>

\* bedrockModels and bedrockDefaultModelId of shared/api
bedrockModels ==
    { [id |-> NovaLiteId, maxTokens |-> Some(5000), supportsPromptCache |-> FALSE],
      [id |-> NovaProId, maxTokens |-> None, supportsPromptCache |-> TRUE],
      [id |-> ClaudeId, maxTokens |-> Some(8192), supportsPromptCache |-> TRUE] }
bedrockDefaultModelId == ClaudeId

ModelInfo(id) == CHOOSE m \in bedrockModels : m.id = id
InCatalog(id) == \E m \in bedrockModels : m.id = id

\* the options the model explores
RequestedIds ==
    { None, Some(<<>>), Some(NovaLiteId), Some(NovaProId), Some(ClaudeId),
      Some(<<"A", "M", "A", "Z", "O", "N", ".", "N", "O", "V", "A", "-", "L", "I", "T", "E", "-", "V", "1">>),
      Some(<<"m", "y", "-", "n", "o", "v", "a">>),
      Some(<<"A", "n", "t", "h", "r", "o", "p", "i", "c", ".", "C", "l", "a", "u", "d", "e", "-", "3">>),
      Some(<<"m", "i", "s", "t", "r", "a", "l", ".", "l", "a", "r", "g", "e">>) }
Regions ==
    { None, Some(<<>>), Some(<<"u", "s", "-", "e", "a", "s", "t", "-", "1">>), Some(<<"e", "u", "-", "w", "e", "s", "t", "-", "1">>),
      Some(<<"a", "p", "-", "s", "o", "u", "t", "h", "-", "1">>), Some(<<"u", "s">>), Some(<<"U", "S", "-", "W", "E", "S", "T", "-", "2">>),
      Some(<<"e", "u", "r">>) }
Flags == {None, Some(FALSE), Some(TRUE)}

OptionValues ==
    [apiModelId : RequestedIds, awsRegion : Regions,
     awsUseCrossRegionInference : Flags, useBedrockRuntime : Flags]

\* JavaScript truthiness of an optional boolean / optional string
TruthyFlag(o) == IsSome(o) /\ Get(o)
TruthyText(o) == IsSome(o) /\ Get(o) # <<>>

\* getModel()
GetModel(o) ==
    IF TruthyText(o.apiModelId) /\ InCatalog(Get(o.apiModelId))
      THEN ModelInfo(Get(o.apiModelId))
      ELSE ModelInfo(bedrockDefaultModelId)

\* isNovaModel()
IsNovaModel(o) == Includes(ToLowerCase(GetModel(o).id), NovaText)

\* shouldUseRuntime that compares the requested id as it is written
ShouldUseRuntime_CaseSensitive(o) ==
    LET modelId == IF TruthyText(o.apiModelId)
                     THEN Get(o.apiModelId)
                     ELSE bedrockDefaultModelId
    IN Includes(modelId, NovaText) \/ o.useBedrockRuntime = Some(TRUE)

\* static shouldUseRuntime(options)
ShouldUseRuntime(o) ==
    LET modelId == IF TruthyText(o.apiModelId)
                     THEN ToLowerCase(Get(o.apiModelId))
                     ELSE bedrockDefaultModelId
    IN Includes(modelId, NovaText) \/ o.useBedrockRuntime = Some(TRUE)

\* the routing prefix chosen from the first two characters of the region
RoutedModelId_TwoChars(o, id) ==
    IF TruthyFlag(o.awsUseCrossRegionInference)
      THEN LET region == IF TruthyText(o.awsRegion) THEN Get(o.awsRegion)
                         ELSE <<>>
               regionPrefix == SliceFront(region, 2)
           IN IF regionPrefix = SliceFront(UsDash, 2) THEN UsDot \o id
              ELSE IF regionPrefix = SliceFront(EuDash, 2) THEN EuDot \o id
              ELSE id
      ELSE id

\* the model id of the command: cross-region routing prefix
RoutedModelId(o, id) ==
    IF TruthyFlag(o.awsUseCrossRegionInference)
      THEN LET region == IF TruthyText(o.awsRegion) THEN Get(o.awsRegion)
                         ELSE <<>>
               regionPrefix == SliceFront(region, 3)
           IN IF regionPrefix = UsDash THEN UsDot \o id
              ELSE IF regionPrefix = EuDash THEN EuDot \o id
              ELSE id
      ELSE id

\* the keys of the prompt object; a key maps to None when its value is
\* undefined
BasePrompt(o) ==
    [anthropic_version |-> Some("bedrock-2024-02-20"),
     messages |-> Some(<<>>),
     system |-> Some("system"),
     max_tokens |-> Some(IF TruthyNum(GetModel(o).maxTokens)
                           THEN Get(GetModel(o).maxTokens) ELSE 8192),
     temperature |-> Some(0)]

CacheControl ==
    [enable_prompt_caching |-> TRUE,
     prompt_routing |-> [enable_routing |-> TRUE, temperature |-> 0]]
NovaConfig == [optimized_response |-> TRUE, context_adaptation |-> TRUE]

\* Object.assign(prompt, { cache_control: ..., nova_config: ... })
Prompt(o) ==
    IF IsNovaModel(o)
      THEN [k \in DOMAIN BasePrompt(o) \cup {"cache_control", "nova_config"} |->
              CASE k = "cache_control" ->
                     IF GetModel(o).supportsPromptCache
                       THEN Some(CacheControl) ELSE None
                [] k = "nova_config" -> Some(NovaConfig)
                [] OTHER -> BasePrompt(o)[k]]
      ELSE BasePrompt(o)

\* a serializer that writes an undefined value as a key without value
Stringify_KeepsUndefined(obj) == [k \in DOMAIN obj |-> obj[k]]

\* JSON.stringify: a key whose value is undefined is left out
Stringify(obj) ==
    [k \in {x \in DOMAIN obj : IsSome(obj[x])} |-> obj[k]]

InitBuild ==
    /\ pc = "send"
    /\ body = "unsent"
    /\ hasStarted = FALSE
    /\ inputTokens = 0
    /\ outputTokens = 0
    /\ events = <<>>
    /\ origin = <<>>
    /\ received = <<>>
    /\ caught = "none"
    /\ thrown = "none"
    /\ parked = NoCall
    /\ options \in OptionValues
    /\ selected = None
    /\ command = None
    /\ content = <<>>
    /\ formatted = None

\* the dispatcher evaluates AwsBedrockRuntimeHandler.shouldUseRuntime(options)
CallShouldUseRuntime ==
    /\ selected = None
    /\ selected' = Some(ShouldUseRuntime(options))
    /\ UNCHANGED <<callVars, parked, options, command, content, formatted>>

\* createMessage up to new InvokeModelWithResponseStreamCommand(...)
BuildCommand ==
    /\ command = None
    /\ command' = Some([modelId |-> RoutedModelId(options, GetModel(options).id),
                        contentType |-> "application/json",
                        accept |-> "application/json",
                        body |-> Stringify(Prompt(options))])
    /\ UNCHANGED <<callVars, parked, options, selected, content, formatted>>

NextBuild ==
    \/ CallShouldUseRuntime
    \/ BuildCommand

SpecBuild == InitBuild /\ [][NextBuild]_vars

-----------------------------------------------------------------------------
(* formatContent.  Texts are sequences of one-character strings.           *)

Block(t, text, source, name) ==
    [type |-> t, text |-> text, source |-> source, name |-> name]

TextBlock(text) == Block("text", text, <<>>, <<>>)
ImageBlock(source) == Block("image", <<>>, source, <<>>)
ToolUseBlock(name) == Block("tool_use", <<>>, <<>>, name)
OtherBlock == Block("tool_result", <<>>, <<>>, <<>>)

\* the content blocks the model explores
Blocks ==
    { TextBlock(<<"h", "i">>), TextBlock(<<>>), TextBlock(<<"a", " ", "b">>),
      ImageBlock(<<"s", "3", ":", "/", "/", "x">>), ToolUseBlock(<<"s", "e", "a", "r", "c", "h">>), OtherBlock }

Contents == UNION {[1..n -> Blocks] : n \in 0..MaxBlocks}

\* the switch of formatContent
FormatBlock(b) ==
    CASE b.type = "text" -> b.text
      [] b.type = "image" -> <<"[", "I", "m", "a", "g", "e", ":", " ">> \o b.source \o <<"]">>
      [] b.type = "tool_use" -> <<"[", "T", "o", "o", "l", ":", " ">> \o b.name \o <<"]">>
      [] OTHER -> <<"[", "U", "n", "k", "n", "o", "w", "n", " ", "B", "l", "o", "c", "k", "]">>

\* join that puts nothing between the pieces
RECURSIVE Join_NoSeparator(_, _)
Join_NoSeparator(pieces, sep) ==
    IF pieces = <<>> THEN <<>>
    ELSE IF Len(pieces) = 1 THEN pieces[1]
    ELSE Join_NoSeparator(SubSeq(pieces, 1, Len(pieces) - 1), sep)
             \o pieces[Len(pieces)]

\* Array.prototype.join
RECURSIVE Join(_, _)
Join(pieces, sep) ==
    IF pieces = <<>> THEN <<>>
    ELSE IF Len(pieces) = 1 THEN pieces[1]
    ELSE Join(SubSeq(pieces, 1, Len(pieces) - 1), sep)
             \o sep \o pieces[Len(pieces)]

\* formatContent(content)
FormatContent(blocks) ==
    Join([i \in 1..Len(blocks) |-> FormatBlock(blocks[i])], <<" ">>)

InitFormat ==
    /\ pc = "send"
    /\ body = "unsent"
    /\ hasStarted = FALSE
    /\ inputTokens = 0
    /\ outputTokens = 0
    /\ events = <<>>
    /\ origin = <<>>
    /\ received = <<>>
    /\ caught = "none"
    /\ thrown = "none"
    /\ parked = NoCall
    /\ options = NoOptions
    /\ selected = None
    /\ command = None
    /\ content \in Contents
    /\ formatted = None

\* content: this.formatContent(msg.content)
CallFormatContent ==
    /\ formatted = None
    /\ formatted' = Some(FormatContent(content))
    /\ UNCHANGED <<callVars, parked, options, selected, command, content>>

NextFormat ==
    \/ CallFormatContent

SpecFormat == InitFormat /\ [][NextFormat]_vars

TypeOK ==
    /\ pc \in {"send", "loop", "catch_text", "catch_usage", "catch_throw",
               "done", "failed", "returned"}
    /\ body \in {"unsent", "absent", "open", "ended", "errored", "closed"}
    /\ hasStarted \in BOOLEAN
    /\ inputTokens \in Nat /\ outputTokens \in Nat
    /\ Len(events) = Len(origin)
    /\ InBounds(received)

-----------------------------------------------------------------------------
(* Vocabulary of the properties.                                           *)

\* the two events of the catch block, in order
SyntheticEvents(e) == <<TextEvent(ErrorText(e)), UsageEvent(0, 0)>>

\* positions of the events that are not derived from a chunk
Synthetic == {i \in 1..Len(origin) : origin[i] = 0}

InCatch == pc \in {"catch_text", "catch_usage", "catch_throw", "failed"}

\* what the catch block has yielded so far, by position
CatchProgress ==
    CASE pc = "catch_text"  -> 0
      [] pc = "catch_usage" -> 1
      [] OTHER              -> 2

\* the events end with the first n events of the catch block for error e,
\* and no other event is synthetic
EndsWithSynthetic(e, n) ==
    /\ Len(events) >= n
    /\ Synthetic = (Len(events) - n + 1)..Len(events)
    /\ \A i \in 1..n : events[Len(events) - n + i] = SyntheticEvents(e)[i]

\* the step takes a chunk from response.body
Receives == Len(received') = Len(received) + 1
NewChunk == received'[Len(received')]

Parsed(c) == c.bytes /\ c.json = "object"
CarriesText(c) ==
    Parsed(c) /\ c.type = "content_block_delta" /\ TruthyStr(c.delta_text)

DecoderState == <<hasStarted, inputTokens, outputTokens>>

-----------------------------------------------------------------------------
\* C1: when response.body raises after any number of chunks, the generator
\* yields exactly one text event with the error description, then exactly
\* one usage event with counts 0 and 0, then throws the same error; nothing
\* is yielded after the throw and the call never completes normally.
C1_StreamErrorReported ==
    caught \in TransportErrors =>
        /\ body = "errored"
        /\ InCatch
        /\ EndsWithSynthetic(caught, CatchProgress)
        /\ pc = "failed" => thrown = caught
        /\ pc # "failed" => thrown = "none"

C1_Witness ==
    /\ pc = "failed"
    /\ thrown = "TransportFailure"
    /\ Len(received) >= 2
    /\ Len(events) = 4
    /\ inputTokens = 10 /\ outputTokens = 2

\* C2: when response.body is exhausted without raising, createMessage fails
\* with "No content was generated" exactly if hasStarted is false, that is
\* if no content_block_delta chunk with text was processed; otherwise it
\* completes without error.
C2_NoContentIffNotStarted ==
    /\ hasStarted <=> \E i \in 1..Len(received) : CarriesText(received[i])
    /\ body = "ended" =>
          /\ hasStarted => pc = "done" /\ caught = "none" /\ thrown = "none"
          /\ ~hasStarted => /\ caught = "NoContentGenerated"
                            /\ InCatch
                            /\ pc = "failed" => thrown = "NoContentGenerated"
    /\ caught = "NoContentGenerated" => body = "ended" /\ ~hasStarted
    /\ pc = "done" => body = "ended" /\ hasStarted

C2_Witness ==
    /\ body = "ended"
    /\ pc = "done"
    /\ Len(received) >= 3
    /\ ~CarriesText(received[1])

\* C3 (as claimed): a stream that ends with "No content was generated"
\* hands the caller no text event at all.
C3_NoTextEventAtAll ==
    caught = "NoContentGenerated" =>
        \A i \in 1..Len(events) : events[i].type # "text"

\* C3 (amended): a stream that ends with "No content was generated" yields
\* first the usage events derived from its chunks and no text derived from
\* a chunk; the only text event is the one of the catch block, which comes
\* after them and is followed by the usage event with counts 0 and 0 before
\* the error is thrown.
C3_OnlySyntheticText ==
    caught = "NoContentGenerated" =>
        /\ InCatch
        /\ EndsWithSynthetic("NoContentGenerated", CatchProgress)
        /\ \A i \in 1..Len(events) :
              origin[i] # 0 => events[i].type = "usage"

C3_Witness ==
    /\ pc = "failed"
    /\ thrown = "NoContentGenerated"
    /\ received = <<MsgStartChunk(Some(Usage(Some(10), Some(0)))), MsgStopChunk>>
    /\ events = <<UsageEvent(10, 0), UsageEvent(10, 0)>>
                   \o SyntheticEvents("NoContentGenerated")

\* C4 (as claimed): when the response has no body, no event of any kind is
\* yielded before the error reaches the caller.
C4_NoEventAtAll ==
    body = "absent" => events = <<>>

\* C4 (amended): when the response has no body, createMessage raises "No
\* response stream available" without taking any chunk and yields no event
\* derived from a chunk; before the error reaches the caller it yields
\* exactly the two events of the catch block, the error text and the usage
\* event with counts 0 and 0.
C4_NoBodyOnlySynthetic ==
    /\ body = "absent" =>
          /\ caught = "NoResponseStream"
          /\ InCatch
          /\ received = <<>>
          /\ events = SubSeq(SyntheticEvents("NoResponseStream"), 1, CatchProgress)
          /\ pc = "failed" => thrown = "NoResponseStream"
    /\ caught = "NoResponseStream" => body = "absent"

C4_Witness ==
    /\ pc = "failed"
    /\ body = "absent"
    /\ thrown = "NoResponseStream"
    /\ Len(events) = 2

\* C5: a chunk without bytes, a chunk whose type is none of the four tags,
\* and a message_start, content_block_delta or message_delta chunk without
\* its payload field yield no event, raise no error, leave hasStarted,
\* inputTokens and outputTokens as they are, and the loop goes on.
Ignorable(c) ==
    \/ ~c.bytes
    \/ /\ Parsed(c)
       /\ \/ c.type \notin {"message_start", "content_block_delta",
                            "message_delta", "message_stop"}
          \/ c.type = "message_start" /\ ~IsSome(c.message_usage)
          \/ c.type = "content_block_delta" /\ ~IsSome(c.delta_text)
          \/ c.type = "message_delta" /\ ~IsSome(c.usage_output_tokens)

C5_IgnorableChunkSkipped ==
    [][ (Receives /\ Ignorable(NewChunk)) =>
            /\ events' = events
            /\ origin' = origin
            /\ DecoderState' = DecoderState
            /\ caught' = caught /\ thrown' = thrown
            /\ body' = body
            /\ pc' = "loop" ]_vars

C5_Witness ==
    /\ Len(received) = 3
    /\ \A i \in 1..2 : Ignorable(received[i])
    /\ received[1] # received[2]
    /\ origin = <<3>>
    /\ events = <<TextEvent("Hel")>>

\* C6: a chunk whose bytes do not decode to a JSON object is skipped: it
\* yields no event and raises no error, and the loop goes on with the
\* chunks after it.
C6_MalformedChunkSkipped ==
    [][ (Receives /\ NewChunk.bytes /\ NewChunk.json # "object") =>
            /\ events' = events
            /\ caught' = caught
            /\ pc' = "loop" ]_vars

\* C7 (as claimed): inputTokens and outputTokens never decrease from one
\* step to the next, and the counts of successive usage events never
\* decrease.
UsagePositions(ev) == {i \in 1..Len(ev) : ev[i].type = "usage"}

C7_CountsNeverDecrease ==
    [][ /\ inputTokens' >= inputTokens
        /\ outputTokens' >= outputTokens
        /\ \A i, j \in UsagePositions(events') :
              i < j => /\ events'[i].inputTokens <= events'[j].inputTokens
                       /\ events'[i].outputTokens <= events'[j].outputTokens
      ]_vars

\* C7 (amended): inputTokens and outputTokens hold the values the backend
\* reported last: a step lowers one of them only by taking a message_start
\* chunk with a usage record or a message_delta chunk with a nonzero count
\* that reports the lower value (an absent field of the usage record counts
\* as 0).  Every usage event derived from a chunk carries the counts as
\* they are after that chunk, so these events decrease only when the
\* reported counts do; the usage event of the catch block carries 0 and 0.
ReportedByStart(c) ==
    /\ Parsed(c) /\ c.type = "message_start" /\ IsSome(c.message_usage)
    /\ inputTokens' = OrZero(Get(c.message_usage).input_tokens)
    /\ outputTokens' = OrZero(Get(c.message_usage).output_tokens)

ReportedByDelta(c) ==
    /\ Parsed(c) /\ c.type = "message_delta"
    /\ TruthyNum(c.usage_output_tokens)
    /\ outputTokens' = Get(c.usage_output_tokens)
    /\ inputTokens' = inputTokens

C7_CountsFollowBackend ==
    [][ /\ (inputTokens' < inputTokens \/ outputTokens' < outputTokens) =>
              /\ Receives
              /\ ReportedByStart(NewChunk) \/ ReportedByDelta(NewChunk)
        /\ (Len(events') > Len(events)
              /\ events'[Len(events')].type = "usage") =>
              IF origin'[Len(events')] # 0
                THEN events'[Len(events')] =
                         UsageEvent(inputTokens', outputTokens')
                ELSE /\ pc = "catch_usage"
                     /\ events'[Len(events')] = UsageEvent(0, 0)
      ]_vars

C7_Witness ==
    /\ pc = "loop"
    /\ Len(events) = 3
    /\ origin = <<1, 2, 3>>
    /\ events[2] = UsageEvent(10, 2)
    /\ events[3] = UsageEvent(0, 0)
    /\ inputTokens = 0 /\ outputTokens = 0

\* C8: events are yielded in the order of the chunks they come from, one
\* event per chunk at most, with no reordering, buffering or coalescing: the
\* texts of the text events are, in order, the texts of the
\* content_block_delta chunks that carried text (followed only by the error
\* text of the catch block once an error was caught), and the example
\* stream of the specification yields its five events in that order.
RECURSIVE FrameTexts(_)
FrameTexts(s) ==
    IF s = <<>> THEN <<>>
    ELSE LET rest == FrameTexts(SubSeq(s, 1, Len(s) - 1))
             c == s[Len(s)]
         IN IF CarriesText(c) THEN Append(rest, Get(c.delta_text)) ELSE rest

RECURSIVE EventTexts(_)
EventTexts(ev) ==
    IF ev = <<>> THEN <<>>
    ELSE LET rest == EventTexts(SubSeq(ev, 1, Len(ev) - 1))
             e == ev[Len(ev)]
         IN IF e.type = "text" THEN Append(rest, e.text) ELSE rest

ExampleStream ==
    << MsgStartChunk(Some(Usage(Some(10), Some(0)))),
       BlockDeltaChunk(Some("Hel")), BlockDeltaChunk(Some("lo")),
       MsgDeltaChunk(Some(2)), MsgStopChunk >>

ExampleEvents ==
    << UsageEvent(10, 0), TextEvent("Hel"), TextEvent("lo"),
       UsageEvent(10, 2), UsageEvent(10, 2) >>

IsPrefix(s, t) == Len(s) <= Len(t) /\ s = SubSeq(t, 1, Len(s))

IsMessageDelta(c) == Parsed(c) /\ c.type = "message_delta"

DeltaApplied(n) ==
    /\ outputTokens' = n
    /\ inputTokens' = inputTokens
    /\ hasStarted' = hasStarted
    /\ events' = Append(events, UsageEvent(inputTokens, n))
    /\ origin' = Append(origin, Len(received'))

C9_EveryCountOverwrites ==
    [][ (Receives /\ IsMessageDelta(NewChunk)
           /\ IsSome(NewChunk.usage_output_tokens)) =>
            DeltaApplied(Get(NewChunk.usage_output_tokens)) ]_vars

\* C9 (amended): every message_delta chunk that carries an output-token
\* count n >= 1 overwrites outputTokens with n, leaves inputTokens as it is
\* and yields exactly one usage event with inputTokens and n; a count of 0
\* is treated as absent: nothing is overwritten and nothing is yielded.
C9_NonzeroCountOverwrites ==
    [][ (Receives /\ IsMessageDelta(NewChunk)
           /\ IsSome(NewChunk.usage_output_tokens)) =>
            IF Get(NewChunk.usage_output_tokens) >= 1
              THEN DeltaApplied(Get(NewChunk.usage_output_tokens))
              ELSE /\ DecoderState' = DecoderState
                   /\ events' = events
                   /\ origin' = origin ]_vars

C9_Witness ==
    /\ Len(received) = 3
    /\ received[3] = MsgDeltaChunk(Some(2))
    /\ received[2] = MsgDeltaChunk(Some(0))
    /\ events = <<UsageEvent(10, 0), UsageEvent(10, 2)>>
    /\ origin = <<1, 3>>
    /\ outputTokens = 2

\* C10: every message_stop chunk yields exactly one usage event with the
\* counts accumulated so far, whether or not content has started and
\* whether or not any usage was reported, and changes no decoder state.
C10_StopYieldsCurrentCounts ==
    [][ (Receives /\ Parsed(NewChunk) /\ NewChunk.type = "message_stop") =>
            /\ events' = Append(events, UsageEvent(inputTokens, outputTokens))
            /\ origin' = Append(origin, Len(received'))
            /\ DecoderState' = DecoderState
            /\ pc' = "loop"
            /\ caught' = caught ]_vars

C10_Witness ==
    /\ received = <<MsgStopChunk, MsgStopChunk>>
    /\ events = <<UsageEvent(0, 0), UsageEvent(0, 0)>>
    /\ ~hasStarted

\* C17: between chunks, and when the catch block is entered, inputTokens and
\* outputTokens are the counts of the usage event yielded last (0 and 0 if
\* none was yielded): every count the decoder took from the backend has
\* reached the caller in a usage event before the events of the catch block.
LastUsageCounts(ev) ==
    IF UsagePositions(ev) = {} THEN <<0, 0>>
    ELSE LET i == CHOOSE k \in UsagePositions(ev) :
                      \A m \in UsagePositions(ev) : m <= k
         IN <<ev[i].inputTokens, ev[i].outputTokens>>

C17_CountsAlreadyDelivered ==
    pc \in {"loop", "done", "catch_text", "catch_usage"} =>
        <<inputTokens, outputTokens>> = LastUsageCounts(events)

C17_Witness ==
    /\ pc = "catch_usage"
    /\ caught = "TransportFailure"
    /\ inputTokens = 10 /\ outputTokens = 2
    /\ Len(events) = 4
    /\ events[2] = UsageEvent(10, 2)
    /\ events[3].type = "text" /\ origin[3] # 0

\* C18: the decoder takes one chunk per step; a chunk yields at most one
\* event, and that event is yielded in the step that takes the chunk, so it
\* has reached the caller before the next chunk is requested; no chunk is
\* requested once an error was raised or response.body is exhausted.
C18_OneChunkPerStep ==
    [][ /\ Len(received') \in {Len(received), Len(received) + 1}
        /\ Receives =>
              /\ pc = "loop" /\ body = "open"
              /\ caught = "none" /\ thrown = "none"
              /\ received = SubSeq(received', 1, Len(received))
              /\ \A i \in 1..Len(origin) : origin[i] \in 1..Len(received)
              /\ \/ events' = events /\ origin' = origin
                 \/ /\ Len(events') = Len(events) + 1
                    /\ events = SubSeq(events', 1, Len(events))
                    /\ origin' = Append(origin, Len(received'))
      ]_vars

C18_Witness ==
    /\ pc = "failed"
    /\ body = "errored"
    /\ Len(received) = 3
    /\ origin = <<1, 2, 3, 0, 0>>

\* C19 (as claimed): once a message_stop chunk was processed, no later
\* chunk of the stream yields an event or changes the decoder state.
C19_NothingAfterStop ==
    [][ (Receives /\ \E k \in 1..Len(received) : received[k] = MsgStopChunk)
           => /\ events' = events
              /\ DecoderState' = DecoderState ]_vars

\* C19 (amended): the usage event of message_stop is the last event of a
\* stream that completes without error when message_stop is the last chunk
\* of that stream.  The loop does not end at message_stop: chunks after it
\* are processed like any other chunk.
C19_StopLastIsFinal ==
    (pc = "done" /\ received # <<>>
        /\ received[Len(received)] = MsgStopChunk) =>
            /\ events # <<>>
            /\ events[Len(events)] = UsageEvent(inputTokens, outputTokens)
            /\ origin[Len(origin)] = Len(received)

C19_Witness ==
    /\ pc = "done"
    /\ received = <<MsgStopChunk, BlockDeltaChunk(Some("Hel")), MsgStopChunk>>
    /\ events = <<UsageEvent(0, 0), TextEvent("Hel"), UsageEvent(0, 0)>>

\* C11: when the caller gives the generator up after an event, the decoder
\* takes no further chunk from response.body, response.body is released,
\* and nothing more is yielded or thrown: no error text, no usage event
\* with counts 0 and 0, no error.
C11_AbandonReleasesStream ==
    [][ pc' = "returned" =>
            /\ body' # "open"
            /\ thrown' = "none"
            /\ events' = events
            /\ origin' = origin
            /\ received' = received
            /\ caught' = caught
            /\ DecoderState' = DecoderState ]_vars

C11_Witness ==
    /\ pc = "returned"
    /\ body = "closed"
    /\ caught = "none"
    /\ received = <<MsgStartChunk(Some(Usage(Some(10), Some(0)))),
                    BlockDeltaChunk(Some("Hel"))>>
    /\ events = <<UsageEvent(10, 0), TextEvent("Hel")>>

\* C12: each createMessage call has its own hasStarted, inputTokens and
\* outputTokens: when two calls of one handler run with their chunks
\* interleaved in any order, the events and the outcome of each call are
\* those of that call run alone on its own stream.
ErrorAlone(c, d) ==
    CASE c.body = "unsent"  -> IF c.pc = "send" THEN "none" ELSE "SendFailure"
      [] c.body = "absent"  -> "NoResponseStream"
      [] c.body = "open"    -> "none"
      [] c.body = "errored" -> "TransportFailure"
      [] c.body = "closed"  -> d.failure
      [] c.body = "ended"   -> IF d.hasStarted THEN "none"
                               ELSE "NoContentGenerated"

YieldedInCatch(c) ==
    CASE c.pc = "catch_usage"             -> 1
      [] c.pc \in {"catch_throw", "failed"} -> 2
      [] OTHER                            -> 0

AsRunAlone(c) ==
    LET d == Decode(c.received)
        e == ErrorAlone(c, d)
    IN /\ c.hasStarted = d.hasStarted
       /\ c.inputTokens = d.inputTokens
       /\ c.outputTokens = d.outputTokens
       /\ c.caught = e
       /\ c.events = d.events \o SubSeq(SyntheticEvents(e), 1, YieldedInCatch(c))
       /\ c.thrown = IF c.pc = "failed" THEN e ELSE "none"
       /\ (e = "none") = (c.pc \in {"send", "loop", "done"})
       /\ (c.pc = "done") = (c.body = "ended" /\ d.hasStarted)

C12_CallsDoNotInterfere ==
    parked.pc # "none" => AsRunAlone(Running) /\ AsRunAlone(parked)

C12_Witness ==
    /\ parked.pc = "failed"
    /\ parked.thrown = "NoContentGenerated"
    /\ parked.received = <<MsgStartChunk(Some(Usage(Some(10), Some(0))))>>
    /\ pc = "done"
    /\ received = <<BlockDeltaChunk(Some("Hel"))>>
    /\ events = <<TextEvent("Hel")>>

\* One call alone is the loop applied to its stream.
SingleCallAsRunAlone ==
    parked.pc = "none" =>
        AsRunAlone([id |-> 1, pc |-> pc, body |-> body,
                    hasStarted |-> hasStarted, inputTokens |-> inputTokens,
                    outputTokens |-> outputTokens, events |-> events,
                    origin |-> origin, received |-> received,
                    caught |-> caught, thrown |-> thrown])

-----------------------------------------------------------------------------
(* Vocabulary of the properties of the request.                            *)

\* the id contains "nova" in any letter case
NovaFamily(id) ==
    \E i \in 1..(Len(id) - 3) :
        /\ id[i] \in {"n", "N"} /\ id[i + 1] \in {"o", "O"}
        /\ id[i + 2] \in {"v", "V"} /\ id[i + 3] \in {"a", "A"}

StartsWith(str, pre) ==
    Len(str) >= Len(pre) /\ \A i \in 1..Len(pre) : str[i] = pre[i]

BodyKeys == DOMAIN Get(command).body

\* the requested id, or the default id when none is requested
RequestedOrDefault(o) ==
    IF IsSome(o.apiModelId) /\ Get(o.apiModelId) # <<>>
      THEN Get(o.apiModelId) ELSE bedrockDefaultModelId

\* C13: in the request sent to the transport, a Nova model without prompt
\* cache support has no cache_control field and has the nova_config block;
\* a Nova model with prompt cache support has both; any other model has
\* neither.
C13_NovaExtension ==
    IsSome(command) =>
        LET m == GetModel(options)
        IN /\ (NovaFamily(m.id) /\ ~m.supportsPromptCache) =>
                 ("cache_control" \notin BodyKeys /\ "nova_config" \in BodyKeys)
           /\ (NovaFamily(m.id) /\ m.supportsPromptCache) =>
                 ("cache_control" \in BodyKeys /\ "nova_config" \in BodyKeys)
           /\ ~NovaFamily(m.id) =>
                 ("cache_control" \notin BodyKeys /\ "nova_config" \notin BodyKeys)

C13_Witness ==
    /\ IsSome(command)
    /\ GetModel(options).id = NovaLiteId
    /\ ~GetModel(options).supportsPromptCache
    /\ "nova_config" \in BodyKeys
    /\ "cache_control" \notin BodyKeys

\* C14: the model id of the command is the resolved id when cross-region
\* routing is off; with routing on it is the resolved id with "us." or "eu."
\* put in front once when the region starts with "us-" or "eu-", and the
\* resolved id itself for any other region, an unset one included.
C14_RoutingPrefix ==
    IsSome(command) =>
        LET id == GetModel(options).id
            sent == Get(command).modelId
            on == options.awsUseCrossRegionInference = Some(TRUE)
            r == options.awsRegion
        IN IF on /\ IsSome(r) /\ StartsWith(Get(r), UsDash)
             THEN sent = UsDot \o id /\ Len(sent) = Len(id) + 3
           ELSE IF on /\ IsSome(r) /\ StartsWith(Get(r), EuDash)
             THEN sent = EuDot \o id /\ Len(sent) = Len(id) + 3
           ELSE sent = id

C14_Witness ==
    /\ IsSome(command)
    /\ options.awsUseCrossRegionInference = Some(TRUE)
    /\ IsSome(options.awsRegion)
    /\ StartsWith(Get(options.awsRegion), UsDash)
    /\ Get(command).modelId = UsDot \o NovaLiteId

\* C15: shouldUseRuntime(options) is true exactly if the requested model id
\* (the default id when none is requested) contains "nova" in any letter
\* case or the useBedrockRuntime flag is set; it needs no handler and does
\* not change the options.
C15_SelectionPredicate ==
    [][ selected' # selected =>
            /\ selected' = Some(\/ NovaFamily(RequestedOrDefault(options))
                                \/ options.useBedrockRuntime = Some(TRUE))
            /\ options' = options
            /\ command' = command ]_vars

C15_Witness ==
    /\ selected = Some(TRUE)
    /\ command = None
    /\ options.useBedrockRuntime = None
    /\ IsSome(options.apiModelId)
    /\ Get(options.apiModelId) # NovaLiteId
    /\ ToLowerCase(Get(options.apiModelId)) = NovaLiteId

\* C20: with the useBedrockRuntime flag not set, shouldUseRuntime(options)
\* is true exactly if the handler built from the same options treats its
\* resolved model as Nova, that is isNovaModel() is true and the request
\* has the nova_config block.
C20_SelectorAgreesWithHandler ==
    (IsSome(selected) /\ IsSome(command)
        /\ options.useBedrockRuntime # Some(TRUE)) =>
            /\ Get(selected) = IsNovaModel(options)
            /\ Get(selected) = ("nova_config" \in BodyKeys)

\* C16: formatContent turns every block into exactly one piece (the text
\* itself, "[Image: <source>]", "[Tool: <name>]", or "[Unknown Block]" for
\* any other tag), drops none, keeps the order of the blocks and puts a
\* single space between two pieces; it gives a result for every sequence
\* of blocks, the empty one included.
PieceOf(b) ==
    IF b.type = "text" THEN b.text
    ELSE IF b.type = "image" THEN <<"[", "I", "m", "a", "g", "e", ":", " ">> \o b.source \o <<"]">>
    ELSE IF b.type = "tool_use" THEN <<"[", "T", "o", "o", "l", ":", " ">> \o b.name \o <<"]">>
    ELSE <<"[", "U", "n", "k", "n", "o", "w", "n", " ", "B", "l", "o", "c", "k", "]">>

\* where piece i starts in the result, counted from 0
RECURSIVE OffsetOf(_, _)
OffsetOf(pieces, i) ==
    IF i = 1 THEN 0
    ELSE OffsetOf(pieces, i - 1) + Len(pieces[i - 1]) + 1

ExampleContent ==
    << TextBlock(<<"h", "i">>), ImageBlock(<<"s", "3", ":", "/", "/", "x">>), ToolUseBlock(<<"s", "e", "a", "r", "c", "h">>), OtherBlock >>

ExampleFormatted ==
    << "h", "i", " ", "[", "I", "m", "a", "g", "e", ":", " ", "s",
       "3", ":", "/", "/", "x", "]", " ", "[", "T", "o", "o", "l",
       ":", " ", "s", "e", "a", "r", "c", "h", "]", " ", "[", "U",
       "n", "k", "n", "o", "w", "n", " ", "B", "l", "o", "c", "k",
       "]" >>

C16_OnePiecePerBlock ==
    IsSome(formatted) =>
        LET n == Len(content)
            pieces == [i \in 1..n |-> PieceOf(content[i])]
            r == Get(formatted)
        IN /\ Len(r) = IF n = 0 THEN 0
                       ELSE OffsetOf(pieces, n) + Len(pieces[n])
           /\ \A i \in 1..n :
                 SubSeq(r, OffsetOf(pieces, i) + 1,
                           OffsetOf(pieces, i) + Len(pieces[i])) = pieces[i]
           /\ \A i \in 2..n : r[OffsetOf(pieces, i)] = " "
           /\ content = ExampleContent => r = ExampleFormatted

C16_Witness ==
    /\ content = ExampleContent
    /\ formatted = Some(ExampleFormatted)
====
